---- MODULE Spec2Model ----
(***************************************************************************)
(* State-machine model of the concurrent parts of the repository:          *)
(*   scripts/python/analyze_logs_parallel.py  (byte-range split, scan,     *)
(*                                             reduce)                     *)
(*   scripts/python/parallel-execution.py     (run_batch_jobs: streaming   *)
(*                                             thread-pool batch runner)   *)
(*   scripts/python/check_service_health_threaded.py  (threaded URL checks *)
(*                                             gathered into one report)   *)
(***************************************************************************)
EXTENDS Integers, Sequences, FiniteSets, TLC

\* ------------------------------------------------------------------ bounds
MaxLines == 3        \* lines in a log file
MaxLineLen == 2      \* bytes in one line, newline included
MaxTs == 2           \* distinct timestamps
MaxCores == 3        \* cpu_count()
MaxPlanSize == 40    \* file size when only the range plan is exercised
MaxItems == 3        \* len(file_list)
MaxWorkers == 2      \* max_workers
MaxParts == 3        \* per-range results when only the reduce step is exercised
MaxCount == 2        \* matches in one such per-range result
MaxChecks == 2       \* len(urls)
MaxUrls == 2         \* distinct URLs

\* ------------------------------------------------------- program constants
MAX_WORKERS == 10

VARIABLES
    \* analyze_logs_parallel
    lines,        \* the log file: a sequence of lines [len, kind, ts]
    cpu_cores,    \* cpu_count()
    apc,          \* position of analyze_logs_parallel
    file_size,    \* os.path.getsize(filepath)
    chunk_args,   \* the (start, end) byte ranges built so far
    results,      \* per range: what its worker returned (or NotRun)
    report,       \* the dict analyze_logs_parallel returns
    \* run_batch_jobs
    n,            \* len(file_list); item i is file_list[i-1]
    max_workers,  \* max_workers parameter
    gpc,          \* position of the run_batch_jobs generator
    submitted,    \* number of items submitted to the executor so far
    fstate,       \* per item: state of its future
    fresult,      \* per item: what process_log_safe returned / raised
    snapshot,     \* as_completed: futures already finished when it was called
    doneq,        \* as_completed: waiter.finished_futures, in completion order
    yielded,      \* the outcomes the generator has yielded, in order
    consumed,     \* futures as_completed has handed to the loop body
    faulted,      \* items whose execution raised inside process_log_safe
    slow,         \* items whose execution lasted longer than timeout_per_job
    cancelled,    \* executor.shutdown(cancel_futures=True) has run
    startedAtCancel, \* items that had started executing when it ran
    timeout_per_job, \* timeout_per_job parameter
    finish_order, \* history: the items in the order their executions finished
    early,        \* history: the items finished when as_completed was called
    \* check_service_health_threaded
    urls,         \* the urls argument; check i is the one submitted for urls[i]
    hpc,          \* position of check_service_health_threaded
    hstate,       \* per check: state of its future
    hresult,      \* per check: what check_single_url returned / raised
    hearly,       \* as_completed: futures already finished when it was called
    hwaiter,      \* as_completed: waiter.finished_futures, in completion order
    hprocessed,   \* the futures the for loop has processed, in order
    status_report, \* the dict being built and returned
    hfinish       \* history: the checks in the order they completed

avars == <<lines, cpu_cores, apc, file_size, chunk_args, results, report>>
bvars == <<n, max_workers, gpc, submitted, fstate, fresult, snapshot, doneq,
           yielded, consumed, faulted, slow, cancelled, startedAtCancel>>
\* The parameter and the history variables: no step of the program writes them.
xvars == <<timeout_per_job, finish_order, early>>
hvars == <<urls, hpc, hstate, hresult, hearly, hwaiter, hprocessed,
           status_report, hfinish>>
vars == <<avars, bvars, xvars, hvars>>

\* ===================================================== analyze_logs_parallel
None == 0
Timestamps == 1..MaxTs

\* kind: "match"     valid JSON object whose error_code is the target
\*       "nomatch"   valid JSON object with another error_code
\*       "malformed" not JSON: json.loads raises JSONDecodeError
\*       "nondict"   valid JSON that is no object: entry.get raises AttributeError
LineVariants ==
    {[len |-> l, kind |-> "match", ts |-> t] :
        l \in 1..MaxLineLen, t \in Timestamps \cup {None}}
    \cup {[len |-> l, kind |-> k, ts |-> None] :
        l \in 1..MaxLineLen, k \in {"nomatch", "malformed", "nondict"}}

Files == UNION {[1..k -> LineVariants] : k \in 0..MaxLines}

RECURSIVE SumLen(_, _)
SumLen(ls, k) == IF k = 0 THEN 0 ELSE SumLen(ls, k - 1) + ls[k].len

LineStart(ls, k) == SumLen(ls, k - 1)
FileSize(ls) == SumLen(ls, Len(ls))

\* The line holding byte pos, 0 at or past the end of the file.
LineAt(ls, pos) ==
    IF pos >= FileSize(ls) THEN 0
    ELSE CHOOSE k \in 1..Len(ls) :
            LineStart(ls, k) <= pos /\ pos < LineStart(ls, k) + ls[k].len

\* f.tell() after one f.readline() issued at pos.
ReadLine(ls, pos) ==
    IF LineAt(ls, pos) = 0 THEN pos
    ELSE LineStart(ls, LineAt(ls, pos)) + ls[LineAt(ls, pos)].len

EmptyResult ==
    [count |-> 0, first |-> None, last |-> None, visited |-> <<>>, status |-> "ok"]

\* Body of the scan loop for line k. visited records the lines read by the
\* loop (the lines handed to json.loads).
Extract(acc, k, line) ==
    IF line.kind = "nondict"
    THEN [acc EXCEPT !.visited = Append(@, k), !.status = "raised"]
    ELSE IF line.kind = "match"
    THEN [acc EXCEPT !.visited = Append(@, k),
                     !.count = @ + 1,
                     !.first = IF @ = None THEN line.ts ELSE @,
                     !.last = line.ts]
    ELSE [acc EXCEPT !.visited = Append(@, k)]

LoopCondition(pos, end_byte) == pos < end_byte

RECURSIVE ScanLoop(_, _, _, _)
ScanLoop(ls, pos, end_byte, acc) ==
    IF acc.status = "raised" \/ ~LoopCondition(pos, end_byte) THEN acc
    ELSE IF LineAt(ls, pos) = 0 THEN acc
    ELSE ScanLoop(ls, ReadLine(ls, pos), end_byte,
                  Extract(acc, LineAt(ls, pos), ls[LineAt(ls, pos)]))

AlignStart(ls, start_byte) ==
    IF start_byte # 0 THEN ReadLine(ls, start_byte) ELSE 0

process_chunk(ls, start_byte, end_byte) ==
    ScanLoop(ls, AlignStart(ls, start_byte), end_byte, EmptyResult)

IOErrorResult == [EmptyResult EXCEPT !.status = "ioerror"]
NotRun == [EmptyResult EXCEPT !.status = "notrun"]

ChunkSize(size, cores) == size \div cores

ChunkEndNoRemainder(i, size, cores) == (i + 1) * ChunkSize(size, cores)

ChunkEnd(i, size, cores) ==
    IF i = cores - 1 THEN size ELSE (i + 1) * ChunkSize(size, cores)

\* The range built by iteration i (0-based) of the planning loop.
ChunkRange(i, size, cores) ==
    [start |-> i * ChunkSize(size, cores), end |-> ChunkEnd(i, size, cores)]

EmptyReport == [count |-> 0, first_seen |-> None, last_seen |-> None]

\* ReduceStep without the `is not None` tests on the range's timestamps.
ReduceStepNoNoneTest(acc, r) ==
    IF r.count > 0
    THEN [count |-> acc.count + r.count,
          first_seen |-> IF acc.first_seen = None \/ r.first < acc.first_seen
                         THEN r.first ELSE acc.first_seen,
          last_seen |-> IF acc.last_seen = None \/ r.last > acc.last_seen
                        THEN r.last ELSE acc.last_seen]
    ELSE acc

\* ReduceStep that keeps the first timestamps it meets instead of comparing.
ReduceStepKeepFirst(acc, r) ==
    IF r.count > 0
    THEN [count |-> acc.count + r.count,
          first_seen |-> IF acc.first_seen = None THEN r.first ELSE acc.first_seen,
          last_seen |-> IF acc.last_seen = None THEN r.last ELSE acc.last_seen]
    ELSE acc

ReduceStep(acc, r) ==
    IF r.count > 0
    THEN [count |-> acc.count + r.count,
          first_seen |-> IF acc.first_seen = None
                            \/ (r.first # None /\ r.first < acc.first_seen)
                         THEN r.first ELSE acc.first_seen,
          last_seen |-> IF acc.last_seen = None
                           \/ (r.last # None /\ r.last > acc.last_seen)
                        THEN r.last ELSE acc.last_seen]
    ELSE acc

RECURSIVE ReduceFrom(_, _, _)
ReduceFrom(rs, k, acc) ==
    IF k > Len(rs) THEN acc ELSE ReduceFrom(rs, k + 1, ReduceStep(acc, rs[k]))

Reduce(rs) == ReduceFrom(rs, 1, EmptyReport)

\* ---- actions
GetSize ==
    /\ apc = "start"
    /\ file_size' = FileSize(lines)
    /\ apc' = "planning"
    /\ UNCHANGED <<lines, cpu_cores, chunk_args, results, report>>

\* One iteration of the loop that prepares chunk_args.
PlanStep ==
    /\ apc = "planning"
    /\ Len(chunk_args) < cpu_cores
    /\ chunk_args' = Append(chunk_args, ChunkRange(Len(chunk_args), file_size, cpu_cores))
    /\ UNCHANGED <<lines, cpu_cores, apc, file_size, results, report>>

\* Pool(cpu_cores) is entered and pool.map hands out the ranges.
StartPool ==
    /\ apc = "planning"
    /\ Len(chunk_args) = cpu_cores
    /\ results' = [i \in 1..cpu_cores |-> NotRun]
    /\ apc' = "mapping"
    /\ UNCHANGED <<lines, cpu_cores, file_size, chunk_args, report>>

\* A pool worker runs process_chunk on range i; ioerr is an I/O error from
\* open/seek/readline (file vanished, permission denied, read failure).
RunChunk(i, ioerr) ==
    /\ apc = "mapping"
    /\ results[i].status = "notrun"
    /\ results' = [results EXCEPT ![i] =
            IF ioerr THEN IOErrorResult
            ELSE process_chunk(lines, chunk_args[i].start, chunk_args[i].end)]
    /\ UNCHANGED <<lines, cpu_cores, apc, file_size, chunk_args, report>>

\* pool.map returns the list of results, or re-raises a worker's exception.
MapReturn ==
    /\ apc = "mapping"
    /\ \A i \in 1..cpu_cores : results[i].status # "notrun"
    /\ apc' = IF \E i \in 1..cpu_cores : results[i].status \in {"raised", "ioerror"}
              THEN "raised" ELSE "reducing"
    /\ UNCHANGED <<lines, cpu_cores, file_size, chunk_args, results, report>>

ReduceAndReturn ==
    /\ apc = "reducing"
    /\ report' = Reduce(results)
    /\ apc' = "returned"
    /\ UNCHANGED <<lines, cpu_cores, file_size, chunk_args, results>>

\* ============================================================ run_batch_jobs
Items == 1..n
Running == {i \in Items : fstate[i] = "running"}
Queued == {i \in Items : fstate[i] = "queued"}

\* process_log_safe: its try/except turns a fault into a FAILURE result.
process_log_unsafe(fault) == IF fault THEN "RAISED" ELSE "SUCCESS"

process_log_safe(fault) == IF fault THEN "FAILURE" ELSE "SUCCESS"

\* ThreadPoolExecutor(max_workers): a queued item is taken only by one of at
\* most max_workers threads, each running one item at a time.
NoThreadLimit == TRUE

HasFreeSlot == Cardinality(Running) < max_workers

\* future.result(timeout=timeout_per_job): the result of a finished future;
\* TimeoutError for one that does not finish within the timeout.
FutureResult(f) == IF fstate[f] = "finished" THEN fresult[f] ELSE "TIMEOUT"

\* The loop body yields nothing when future.result raises an Exception other
\* than TimeoutError (it only logs).
SwallowedWithFailure(res) == res \in {"RAISED", "FAILURE"}

Swallowed(res) == res = "RAISED"

\* executor.shutdown(wait=False, cancel_futures=True): every future still in
\* the work queue is cancelled.
ShutdownNoCancel(fs) == fs

ShutdownCancel(fs) ==
    [i \in DOMAIN fs |-> IF fs[i] = "queued" THEN "cancelled" ELSE fs[i]]

\* as_completed's waiter: a future that finishes after the call is added at
\* the end of the waiter's list, which is handed out oldest first.
WaiterAddFront(q, i) == <<i>> \o q

WaiterAdd(q, i) == Append(q, i)

\* ---- actions
\* First next() on the generator: the executor is created.
EnterPool ==
    /\ gpc = "created"
    /\ gpc' = IF max_workers <= 0 THEN "valueerror" ELSE "submitting"
    /\ UNCHANGED <<n, max_workers, submitted, fstate, fresult, snapshot, doneq,
                   yielded, consumed, faulted, slow, cancelled, startedAtCancel>>

\* One executor.submit of the dict comprehension.
Submit ==
    /\ gpc = "submitting"
    /\ submitted < n
    /\ submitted' = submitted + 1
    /\ fstate' = [fstate EXCEPT ![submitted + 1] = "queued"]
    /\ UNCHANGED <<n, max_workers, gpc, fresult, snapshot, doneq, yielded,
                   consumed, faulted, slow, cancelled, startedAtCancel>>

\* as_completed(future_to_file) is called: the futures already finished are
\* set aside, a waiter collects the others as they finish.
AsCompletedCall ==
    /\ gpc = "submitting"
    /\ submitted = n
    /\ snapshot' = {i \in Items : fstate[i] = "finished"}
    /\ doneq' = <<>>
    /\ gpc' = "iterating"
    /\ UNCHANGED <<n, max_workers, submitted, fstate, fresult, yielded,
                   consumed, faulted, slow, cancelled, startedAtCancel>>

\* A pool thread takes the oldest queued item and starts process_log_safe.
StartItem(i) ==
    /\ i \in Queued
    /\ \A j \in Queued : i <= j
    /\ HasFreeSlot
    /\ fstate' = [fstate EXCEPT ![i] = "running"]
    /\ UNCHANGED <<n, max_workers, gpc, submitted, fresult, snapshot, doneq,
                   yielded, consumed, faulted, slow, cancelled, startedAtCancel>>

\* process_log_safe returns for item i. fault: the simulated network flake
\* was raised; late: the execution lasted longer than timeout_per_job.
FinishItem(i, fault, late) ==
    /\ i \in Running
    /\ fstate' = [fstate EXCEPT ![i] = "finished"]
    /\ fresult' = [fresult EXCEPT ![i] = process_log_safe(fault)]
    /\ faulted' = IF fault THEN faulted \cup {i} ELSE faulted
    /\ slow' = IF late THEN slow \cup {i} ELSE slow
    /\ doneq' = IF gpc \in {"iterating", "suspended"} THEN WaiterAdd(doneq, i) ELSE doneq
    /\ UNCHANGED <<n, max_workers, gpc, submitted, snapshot, yielded, consumed,
                   cancelled, startedAtCancel>>

\* One iteration of the for loop over as_completed with future f.
LoopBody(f) ==
    /\ consumed' = consumed \cup {f}
    /\ IF Swallowed(FutureResult(f))
       THEN UNCHANGED <<gpc, yielded>>
       ELSE /\ yielded' = Append(yielded, [file_id |-> f, status |-> FutureResult(f)])
            /\ gpc' = "suspended"

\* as_completed hands out a future: first those finished before it was
\* called (in no particular order), then the others in completion order.
YieldNext ==
    /\ gpc = "iterating"
    /\ IF snapshot # {}
       THEN \E f \in snapshot :
               /\ snapshot' = snapshot \ {f}
               /\ doneq' = doneq
               /\ LoopBody(f)
       ELSE /\ doneq # <<>>
            /\ snapshot' = snapshot
            /\ doneq' = Tail(doneq)
            /\ LoopBody(Head(doneq))
    /\ UNCHANGED <<n, max_workers, submitted, fstate, fresult, faulted, slow,
                   cancelled, startedAtCancel>>

\* The consumer asks for the next outcome.
ConsumerNext ==
    /\ gpc = "suspended"
    /\ gpc' = "iterating"
    /\ UNCHANGED <<n, max_workers, submitted, fstate, fresult, snapshot, doneq,
                   yielded, consumed, faulted, slow, cancelled, startedAtCancel>>

\* as_completed is exhausted: the with block exits and the generator returns.
StreamEnd ==
    /\ gpc = "iterating"
    /\ consumed = Items
    /\ gpc' = "returned"
    /\ UNCHANGED <<n, max_workers, submitted, fstate, fresult, snapshot, doneq,
                   yielded, consumed, faulted, slow, cancelled, startedAtCancel>>

\* KeyboardInterrupt reaches the generator inside the try block: the handler
\* shuts the executor down with cancel_futures=True and re-raises.
Interrupt ==
    /\ gpc = "iterating"
    /\ fstate' = ShutdownCancel(fstate)
    /\ cancelled' = TRUE
    /\ startedAtCancel' = {i \in Items : fstate[i] \in {"running", "finished"}}
    /\ gpc' = "exiting"
    /\ UNCHANGED <<n, max_workers, submitted, fresult, snapshot, doneq, yielded,
                   consumed, faulted, slow>>

\* The with block's exit, shutdown(wait=True), returns once the pool threads
\* are joined: nothing is executing and nothing is left in the queue.
PoolNotJoined == TRUE

PoolJoined == Running = {} /\ Queued = {}

\* The with block's exit (shutdown(wait=True)) has joined the pool threads:
\* the KeyboardInterrupt leaves the generator.
ExitRaise ==
    /\ gpc = "exiting"
    /\ PoolJoined
    /\ gpc' = "raised"
    /\ UNCHANGED <<n, max_workers, submitted, fstate, fresult, snapshot, doneq,
                   yielded, consumed, faulted, slow, cancelled, startedAtCancel>>

\* The with block's exit on a closed generator is a plain shutdown(wait=True),
\* without cancel_futures: the futures in the work queue stay there.
CloseCancelsQueued(fs) ==
    [i \in DOMAIN fs |-> IF fs[i] = "queued" THEN "cancelled" ELSE fs[i]]

CloseShutdown(fs) == fs

\* The consumer closes the generator. Before the first next() nothing has
\* run and the generator is just marked closed. At a yield, GeneratorExit is
\* raised there: it is no Exception and no KeyboardInterrupt, so no handler
\* of run_batch_jobs takes it and it leaves through the with block.
Close ==
    /\ gpc \in {"created", "suspended"}
    /\ gpc' = IF gpc = "created" THEN "closed" ELSE "closing"
    /\ fstate' = IF gpc = "created" THEN fstate ELSE CloseShutdown(fstate)
    /\ UNCHANGED <<n, max_workers, submitted, fresult, snapshot, doneq, yielded,
                   consumed, faulted, slow, cancelled, startedAtCancel>>

\* The with block's exit has joined the pool threads: close() returns.
ExitClose ==
    /\ gpc = "closing"
    /\ PoolJoined
    /\ gpc' = "closed"
    /\ UNCHANGED <<n, max_workers, submitted, fstate, fresult, snapshot, doneq,
                   yielded, consumed, faulted, slow, cancelled, startedAtCancel>>

\* The reduction of the stream in __main__: only SUCCESS outcomes are counted,
\* and the final log line reports that count against len(files).
SuccessCount == Cardinality({k \in 1..Len(yielded) : yielded[k].status = "SUCCESS"})

MainReport == [success_count |-> SuccessCount, total |-> n]

BatchIdle ==
    /\ n = 0 /\ max_workers = 0 /\ gpc = "idle" /\ submitted = 0
    /\ fstate = <<>> /\ fresult = <<>> /\ snapshot = {} /\ doneq = <<>>
    /\ yielded = <<>> /\ consumed = {} /\ faulted = {} /\ slow = {}
    /\ cancelled = FALSE /\ startedAtCancel = {}
    /\ timeout_per_job = 5 /\ finish_order = <<>> /\ early = {}

AnalyzeIdle ==
    /\ lines = <<>> /\ cpu_cores = 1 /\ apc = "idle" /\ file_size = 0
    /\ chunk_args = <<>> /\ results = <<>> /\ report = EmptyReport

\* ============================================= check_service_health_threaded
Checks == 1..Len(urls)
HRunning == {i \in Checks : hstate[i] = "running"}
HQueued == {i \in Checks : hstate[i] = "queued"}
HSubmitted == {i \in Checks : hstate[i] # "unsubmitted"}
Processed == {hprocessed[k] : k \in 1..Len(hprocessed)}

\* check_single_url returns (url, "UP ...") or (url, "DOWN ...") for every
\* requests exception; "CRASH" stands for any other exception leaving it.
CheckOutcomes == {"UP", "DOWN", "CRASH"}

\* The loop body: the status of future.result(), or the CRITICAL SCRIPT
\* ERROR text when future.result() raises.
LoopStatus(res) == IF res = "CRASH" THEN "CRITICAL" ELSE res

\* status_report[url] = status that leaves an entry already there alone.
StoreIfAbsent(rep, url, status) ==
    [u \in DOMAIN rep \cup {url} |-> IF u \in DOMAIN rep THEN rep[u] ELSE status]

\* status_report[url] = status
Store(rep, url, status) ==
    [u \in DOMAIN rep \cup {url} |-> IF u = url THEN status ELSE rep[u]]

\* ---- actions
\* One executor.submit of the dict comprehension.
HSubmit ==
    /\ hpc = "submitting"
    /\ Cardinality(HSubmitted) < Len(urls)
    /\ hstate' = [hstate EXCEPT ![Cardinality(HSubmitted) + 1] = "queued"]
    /\ UNCHANGED <<urls, hpc, hresult, hearly, hwaiter, hprocessed,
                   status_report, hfinish>>

\* A pool thread takes the oldest queued check; there are MAX_WORKERS threads.
HStart(i) ==
    /\ i \in HQueued
    /\ \A j \in HQueued : i <= j
    /\ Cardinality(HRunning) < MAX_WORKERS
    /\ hstate' = [hstate EXCEPT ![i] = "running"]
    /\ UNCHANGED <<urls, hpc, hresult, hearly, hwaiter, hprocessed,
                   status_report, hfinish>>

\* check_single_url returns (or raises) for check i.
HFinish(i, res) ==
    /\ i \in HRunning
    /\ hstate' = [hstate EXCEPT ![i] = "finished"]
    /\ hresult' = [hresult EXCEPT ![i] = res]
    /\ hfinish' = Append(hfinish, i)
    /\ hwaiter' = IF hpc = "iterating" THEN Append(hwaiter, i) ELSE hwaiter
    /\ UNCHANGED <<urls, hpc, hearly, hprocessed, status_report>>

\* as_completed(future_to_url) is called: the futures already finished are
\* set aside, a waiter collects the others as they finish.
HAsCompleted ==
    /\ hpc = "submitting"
    /\ HSubmitted = Checks
    /\ hearly' = {i \in Checks : hstate[i] = "finished"}
    /\ hwaiter' = <<>>
    /\ hpc' = "iterating"
    /\ UNCHANGED <<urls, hstate, hresult, hprocessed, status_report, hfinish>>

\* One iteration of the for loop with future f.
HLoopBody(f) ==
    /\ hprocessed' = Append(hprocessed, f)
    /\ status_report' = Store(status_report, urls[f], LoopStatus(hresult[f]))

\* as_completed hands out a future: first those finished before it was
\* called (in no particular order), then the others in completion order.
HProcess ==
    /\ hpc = "iterating"
    /\ IF hearly \ Processed # {}
       THEN \E f \in hearly \ Processed : HLoopBody(f) /\ hwaiter' = hwaiter
       ELSE /\ hwaiter # <<>>
            /\ hwaiter' = Tail(hwaiter)
            /\ HLoopBody(Head(hwaiter))
    /\ UNCHANGED <<urls, hpc, hstate, hresult, hearly, hfinish>>

\* as_completed is exhausted, the with block exits (shutdown(wait=True) with
\* no thread busy) and status_report is returned.
HReturn ==
    /\ hpc = "iterating"
    /\ Processed = Checks
    /\ HRunning = {} /\ HQueued = {}
    /\ hpc' = "returned"
    /\ UNCHANGED <<urls, hstate, hresult, hearly, hwaiter, hprocessed,
                   status_report, hfinish>>

HealthIdle ==
    /\ urls = <<>> /\ hpc = "idle" /\ hstate = <<>> /\ hresult = <<>>
    /\ hearly = {} /\ hwaiter = <<>> /\ hprocessed = <<>>
    /\ status_report = <<>> /\ hfinish = <<>>

\* ============================================================ specifications
InitAnalyze ==
    /\ lines \in Files
    /\ cpu_cores \in 1..MaxCores
    /\ apc = "start"
    /\ file_size = 0
    /\ chunk_args = <<>>
    /\ results = <<>>
    /\ report = EmptyReport
    /\ BatchIdle /\ HealthIdle

NextAnalyze ==
    \/ (GetSize /\ UNCHANGED <<bvars, xvars, hvars>>)
    \/ (PlanStep /\ UNCHANGED <<bvars, xvars, hvars>>)
    \/ (StartPool /\ UNCHANGED <<bvars, xvars, hvars>>)
    \/ (\E i \in 1..cpu_cores, ioerr \in BOOLEAN : RunChunk(i, ioerr) /\ UNCHANGED <<bvars, xvars, hvars>>)
    \/ (MapReturn /\ UNCHANGED <<bvars, xvars, hvars>>)
    \/ (ReduceAndReturn /\ UNCHANGED <<bvars, xvars, hvars>>)

SpecAnalyze == InitAnalyze /\ [][NextAnalyze]_vars

\* Only the range plan, over every file size and 1..64 workers.
InitPlan ==
    /\ \E size \in 1..MaxPlanSize :
          lines = <<[len |-> size, kind |-> "nomatch", ts |-> None]>>
    /\ cpu_cores \in 1..64
    /\ apc = "start"
    /\ file_size = 0
    /\ chunk_args = <<>>
    /\ results = <<>>
    /\ report = EmptyReport
    /\ BatchIdle /\ HealthIdle

NextPlan ==
    \/ (GetSize /\ UNCHANGED <<bvars, xvars, hvars>>)
    \/ (PlanStep /\ UNCHANGED <<bvars, xvars, hvars>>)
    \/ (StartPool /\ UNCHANGED <<bvars, xvars, hvars>>)

SpecPlan == InitPlan /\ [][NextPlan]_vars

\* run_batch_jobs(file_list, max_workers) driven by a consumer.
BatchStart(items, workers) ==
    /\ n = items
    /\ max_workers = workers
    /\ gpc = "created"
    /\ submitted = 0
    /\ fstate = [i \in 1..items |-> "unsubmitted"]
    /\ fresult = [i \in 1..items |-> "none"]
    /\ snapshot = {} /\ doneq = <<>> /\ yielded = <<>> /\ consumed = {}
    /\ faulted = {} /\ slow = {}
    /\ cancelled = FALSE /\ startedAtCancel = {}
    /\ finish_order = <<>> /\ early = {}

InitBatch ==
    /\ \E items \in 0..MaxItems, workers \in 0..MaxWorkers : BatchStart(items, workers)
    /\ timeout_per_job = 5
    /\ AnalyzeIdle /\ HealthIdle

\* Every step but the interrupt.
BatchStep ==
    \/ (EnterPool /\ UNCHANGED <<avars, xvars, hvars>>)
    \/ (Submit /\ UNCHANGED <<avars, xvars, hvars>>)
    \/ (AsCompletedCall /\ UNCHANGED <<avars, xvars, hvars>>)
    \/ (\E i \in Items : StartItem(i) /\ UNCHANGED <<avars, xvars, hvars>>)
    \/ (\E i \in Items, fault, late \in BOOLEAN : FinishItem(i, fault, late) /\ UNCHANGED <<avars, xvars, hvars>>)
    \/ (YieldNext /\ UNCHANGED <<avars, xvars, hvars>>)
    \/ (ConsumerNext /\ UNCHANGED <<avars, xvars, hvars>>)
    \/ (StreamEnd /\ UNCHANGED <<avars, xvars, hvars>>)
    \/ (ExitRaise /\ UNCHANGED <<avars, xvars, hvars>>)

NextBatch ==
    \/ BatchStep
    \/ (Interrupt /\ UNCHANGED <<avars, xvars, hvars>>)

SpecBatch == InitBatch /\ [][NextBatch]_vars


\* The cancellation scenario: 10 items, concurrency 3, every item succeeds in
\* time, and the interrupt reaches the generator right after the first outcome:
\* when the consumer has resumed it and before it yields a second one.
InitScenario == BatchStart(10, 3) /\ timeout_per_job = 5 /\ AnalyzeIdle /\ HealthIdle

NextScenario ==
    \/ (EnterPool /\ UNCHANGED <<avars, xvars, hvars>>)
    \/ (Submit /\ UNCHANGED <<avars, xvars, hvars>>)
    \/ (AsCompletedCall /\ UNCHANGED <<avars, xvars, hvars>>)
    \/ (\E i \in Items : StartItem(i) /\ UNCHANGED <<avars, xvars, hvars>>)
    \/ (\E i \in Items : FinishItem(i, FALSE, FALSE) /\ UNCHANGED <<avars, xvars, hvars>>)
    \/ (Len(yielded) = 0 /\ YieldNext /\ UNCHANGED <<avars, xvars, hvars>>)
    \/ (ConsumerNext /\ UNCHANGED <<avars, xvars, hvars>>)
    \/ (Len(yielded) = 1 /\ Interrupt /\ UNCHANGED <<avars, xvars, hvars>>)
    \/ (ExitRaise /\ UNCHANGED <<avars, xvars, hvars>>)

SpecScenario == InitScenario /\ [][NextScenario]_vars

\* run_batch_jobs with the history of completions recorded: finish_order is
\* the order in which the items finished executing, early the items already
\* finished when as_completed was called.
InitOrder ==
    /\ \E items \in 0..MaxItems, workers \in 0..MaxWorkers : BatchStart(items, workers)
    /\ timeout_per_job = 5
    /\ AnalyzeIdle /\ HealthIdle

NextOrder ==
    \/ (EnterPool /\ UNCHANGED <<avars, xvars, hvars>>)
    \/ (Submit /\ UNCHANGED <<avars, xvars, hvars>>)
    \/ (AsCompletedCall /\ early' = snapshot' /\ UNCHANGED <<avars, timeout_per_job, finish_order, hvars>>)
    \/ (\E i \in Items : StartItem(i) /\ UNCHANGED <<avars, xvars, hvars>>)
    \/ (\E i \in Items, fault \in BOOLEAN :
           /\ FinishItem(i, fault, FALSE)
           /\ finish_order' = Append(finish_order, i)
           /\ UNCHANGED <<avars, timeout_per_job, early, hvars>>)
    \/ (YieldNext /\ UNCHANGED <<avars, xvars, hvars>>)
    \/ (ConsumerNext /\ UNCHANGED <<avars, xvars, hvars>>)
    \/ (StreamEnd /\ UNCHANGED <<avars, xvars, hvars>>)
    \/ (Interrupt /\ UNCHANGED <<avars, xvars, hvars>>)
    \/ (ExitRaise /\ UNCHANGED <<avars, xvars, hvars>>)

SpecOrder == InitOrder /\ [][NextOrder]_vars

\* process_chunk alone, on every file and every byte range of it.
InitChunk ==
    /\ lines \in Files
    /\ cpu_cores = 1
    /\ apc = "mapping"
    /\ file_size = FileSize(lines)
    /\ \E s \in 0..file_size : \E e \in s..file_size :
          chunk_args = <<[start |-> s, end |-> e]>>
    /\ results = <<NotRun>>
    /\ report = EmptyReport
    /\ BatchIdle /\ HealthIdle

NextChunk == \E ioerr \in BOOLEAN : RunChunk(1, ioerr) /\ UNCHANGED <<bvars, xvars, hvars>>

SpecChunk == InitChunk /\ [][NextChunk]_vars

\* run_batch_jobs with a consumer that may close the generator, no interrupt.
InitClose ==
    /\ \E items \in 0..MaxItems, workers \in 0..MaxWorkers : BatchStart(items, workers)
    /\ timeout_per_job = 5
    /\ AnalyzeIdle /\ HealthIdle

NextClose ==
    \/ (EnterPool /\ UNCHANGED <<avars, xvars, hvars>>)
    \/ (Submit /\ UNCHANGED <<avars, xvars, hvars>>)
    \/ (AsCompletedCall /\ UNCHANGED <<avars, xvars, hvars>>)
    \/ (\E i \in Items : StartItem(i) /\ UNCHANGED <<avars, xvars, hvars>>)
    \/ (\E i \in Items, fault, late \in BOOLEAN : FinishItem(i, fault, late) /\ UNCHANGED <<avars, xvars, hvars>>)
    \/ (YieldNext /\ UNCHANGED <<avars, xvars, hvars>>)
    \/ (ConsumerNext /\ UNCHANGED <<avars, xvars, hvars>>)
    \/ (StreamEnd /\ UNCHANGED <<avars, xvars, hvars>>)
    \/ (Close /\ UNCHANGED <<avars, xvars, hvars>>)
    \/ (ExitClose /\ UNCHANGED <<avars, xvars, hvars>>)

SpecClose == InitClose /\ [][NextClose]_vars

\* Only the reduce step, over every list of per-range results process_chunk
\* can return for up to MaxCount matching lines.
MatchFiles ==
    UNION {[1..k -> {l \in LineVariants : l.kind = "match" /\ l.len = 1}] : k \in 0..MaxCount}

PartialResults ==
    {[process_chunk(f, 0, FileSize(f)) EXCEPT !.visited = <<>>] : f \in MatchFiles}

InitReduce ==
    /\ results \in UNION {[1..k -> PartialResults] : k \in 1..MaxParts}
    /\ cpu_cores = Len(results)
    /\ apc = "reducing"
    /\ lines = <<>>
    /\ file_size = 0
    /\ chunk_args = <<>>
    /\ report = EmptyReport
    /\ BatchIdle /\ HealthIdle

NextReduce == ReduceAndReturn /\ UNCHANGED <<bvars, xvars, hvars>>

SpecReduce == InitReduce /\ [][NextReduce]_vars

\* The three-line scenario file (two matching lines around a non-matching
\* one, 6 bytes each) with 2 workers, split at any byte b into [0, b), [b, 18).
ScenarioFile(t1, t3) ==
    <<[len |-> 6, kind |-> "match", ts |-> t1],
      [len |-> 6, kind |-> "nomatch", ts |-> None],
      [len |-> 6, kind |-> "match", ts |-> t3]>>

InitSplit ==
    /\ \E t1, t3 \in Timestamps \cup {None} : lines = ScenarioFile(t1, t3)
    /\ cpu_cores = 2
    /\ apc = "planning"
    /\ file_size = FileSize(lines)
    /\ \E b \in 0..file_size :
          chunk_args = <<[start |-> 0, end |-> b], [start |-> b, end |-> file_size]>>
    /\ results = <<>>
    /\ report = EmptyReport
    /\ BatchIdle /\ HealthIdle

NextSplit ==
    \/ (StartPool /\ UNCHANGED <<bvars, xvars, hvars>>)
    \/ (\E i \in 1..cpu_cores, ioerr \in BOOLEAN : RunChunk(i, ioerr) /\ UNCHANGED <<bvars, xvars, hvars>>)
    \/ (MapReturn /\ UNCHANGED <<bvars, xvars, hvars>>)
    \/ (ReduceAndReturn /\ UNCHANGED <<bvars, xvars, hvars>>)

SpecSplit == InitSplit /\ [][NextSplit]_vars

\* run_batch_jobs over valid and invalid configurations: max_workers from 0,
\* timeout_per_job negative or the default. Every execution lasts longer than
\* a negative timeout.
InitConfig ==
    /\ \E items \in 0..MaxItems, workers \in 0..MaxWorkers : BatchStart(items, workers)
    /\ timeout_per_job \in {-1, 5}
    /\ AnalyzeIdle /\ HealthIdle

NextConfig ==
    \/ (EnterPool /\ UNCHANGED <<avars, xvars, hvars>>)
    \/ (Submit /\ UNCHANGED <<avars, xvars, hvars>>)
    \/ (AsCompletedCall /\ UNCHANGED <<avars, xvars, hvars>>)
    \/ (\E i \in Items : StartItem(i) /\ UNCHANGED <<avars, xvars, hvars>>)
    \/ (\E i \in Items, fault, late \in BOOLEAN :
            /\ (timeout_per_job < 0 => late)
            /\ FinishItem(i, fault, late)
            /\ UNCHANGED <<avars, xvars, hvars>>)
    \/ (YieldNext /\ UNCHANGED <<avars, xvars, hvars>>)
    \/ (ConsumerNext /\ UNCHANGED <<avars, xvars, hvars>>)
    \/ (StreamEnd /\ UNCHANGED <<avars, xvars, hvars>>)
    \/ (Interrupt /\ UNCHANGED <<avars, xvars, hvars>>)
    \/ (ExitRaise /\ UNCHANGED <<avars, xvars, hvars>>)

SpecConfig == InitConfig /\ [][NextConfig]_vars

\* check_service_health_threaded(urls) on every list of up to MaxChecks
\* URLs out of MaxUrls, repetitions included.
InitHealth ==
    /\ urls \in UNION {[1..k -> 1..MaxUrls] : k \in 0..MaxChecks}
    /\ hpc = "submitting"
    /\ hstate = [i \in 1..Len(urls) |-> "unsubmitted"]
    /\ hresult = [i \in 1..Len(urls) |-> "none"]
    /\ hearly = {} /\ hwaiter = <<>> /\ hprocessed = <<>>
    /\ status_report = <<>> /\ hfinish = <<>>
    /\ AnalyzeIdle /\ BatchIdle

NextHealth ==
    \/ (HSubmit /\ UNCHANGED <<avars, bvars, xvars>>)
    \/ (\E i \in Checks : HStart(i) /\ UNCHANGED <<avars, bvars, xvars>>)
    \/ (\E i \in Checks, res \in CheckOutcomes : HFinish(i, res) /\ UNCHANGED <<avars, bvars, xvars>>)
    \/ (HAsCompleted /\ UNCHANGED <<avars, bvars, xvars>>)
    \/ (HProcess /\ UNCHANGED <<avars, bvars, xvars>>)
    \/ (HReturn /\ UNCHANGED <<avars, bvars, xvars>>)

SpecHealth == InitHealth /\ [][NextHealth]_vars

\* ==================================================================== claims
Ranges == 1..Len(chunk_args)
AllRun == apc # "mapping" \/ \A i \in 1..cpu_cores : results[i].status # "notrun"
MapDone == apc \in {"mapping", "reducing", "returned", "raised"} /\ AllRun

\* Number of workers whose scan loop read line k.
VisitCount(k) ==
    Cardinality({i \in 1..Len(results) :
        \E j \in 1..Len(results[i].visited) : results[i].visited[j] = k})

\* C1: when every range of the plan has been scanned by process_chunk without
\* error, every line of the file has been visited by exactly one worker.
C1_EveryLineExactlyOnce ==
    (MapDone /\ \A i \in 1..cpu_cores : results[i].status = "ok")
        => \A k \in 1..Len(lines) : VisitCount(k) = 1

\* C2: for file_size > 0 and 1..64 workers the ranges built so far start at 0,
\* are ordered by start, contiguous and non-overlapping (an earlier range ends
\* at or before the start of every later one); the finished plan has exactly
\* cpu_cores ranges, ends at file_size and covers every byte of the file.
C2_RangePlanPartitions ==
    (file_size > 0 /\ cpu_cores \in 1..64) =>
        /\ Len(chunk_args) <= cpu_cores
        /\ \A i \in Ranges : chunk_args[i].start <= chunk_args[i].end
        /\ (chunk_args # <<>> => chunk_args[1].start = 0)
        /\ \A i \in Ranges : i < Len(chunk_args) =>
                /\ chunk_args[i].end = chunk_args[i + 1].start
                /\ chunk_args[i].start <= chunk_args[i + 1].start
        /\ \A i, j \in Ranges : i < j => chunk_args[i].end <= chunk_args[j].start
        /\ (apc = "mapping" =>
                /\ Len(chunk_args) = cpu_cores
                /\ chunk_args[cpu_cores].end = file_size
                /\ \A b \in 0..(file_size - 1) : \E i \in Ranges :
                        chunk_args[i].start <= b /\ b < chunk_args[i].end)

C2_Witness ==
    /\ apc = "mapping"
    /\ cpu_cores = 64
    /\ file_size = 37
    /\ file_size % cpu_cores # 0

\* What analyze_logs_parallel does on file ls with `cores` workers.
AnalyzeWith(ls, cores) ==
    LET rs == [i \in 1..cores |->
                process_chunk(ls, ChunkRange(i - 1, FileSize(ls), cores).start,
                                  ChunkRange(i - 1, FileSize(ls), cores).end)]
    IN IF \E i \in 1..cores : rs[i].status = "raised"
       THEN [status |-> "raised", report |-> EmptyReport]
       ELSE [status |-> "returned", report |-> Reduce(rs)]

\* C3: the report returned with cpu_cores workers equals the report of a run
\* with one worker on the same file.
C3_SameAsOneWorker ==
    apc = "returned" =>
        AnalyzeWith(lines, 1) = [status |-> "returned", report |-> report]

\* C7: an I/O error in the worker of one range stays in that range: the run
\* still reduces the other ranges' results and returns a report.
C7_IOErrorConfined ==
    (MapDone /\ apc # "mapping"
        /\ (\E i \in 1..cpu_cores : results[i].status = "ioerror")
        /\ (\E i \in 1..cpu_cores : results[i].status = "ok" /\ results[i].count > 0)
        /\ (\A i \in 1..cpu_cores : results[i].status \in {"ok", "ioerror"}))
    => /\ apc \in {"reducing", "returned"}
       /\ (apc = "returned" => report = Reduce(results))

\* Number of outcomes yielded for item i.
OutcomeCount(i) == Cardinality({k \in 1..Len(yielded) : yielded[k].file_id = i})
HasOutcome(i, st) == \E k \in 1..Len(yielded) : yielded[k] = [file_id |-> i, status |-> st]

\* C4: once the stream has ended, every item whose execution lasted longer
\* than timeout_per_job has exactly one outcome, and it is TIMEOUT.
C4_SlowItemYieldsTimeout ==
    gpc = "returned" =>
        \A i \in slow : OutcomeCount(i) = 1 /\ HasOutcome(i, "TIMEOUT")

\* C5: without cancellation the run never gets stuck before the stream ends, no
\* item is yielded twice, and at the end of the stream there is exactly one
\* outcome per submitted item.
C5_OneOutcomePerItem ==
    /\ (gpc \in {"created", "submitting", "iterating", "suspended"} => ENABLED BatchStep)
    /\ \A i \in Items : OutcomeCount(i) <= 1
    /\ (gpc = "returned" =>
            /\ ~cancelled
            /\ Len(yielded) = n
            /\ \A i \in Items : OutcomeCount(i) = 1)

C5_Witness ==
    /\ gpc = "returned"
    /\ n = MaxItems
    /\ faulted # {}
    /\ \E k \in 1..(Len(yielded) - 1) : yielded[k].file_id > yielded[k + 1].file_id

\* C6: every outcome of an item whose execution faulted is FAILURE and every
\* outcome of another item is SUCCESS; the generator raises only on an
\* interrupt, and a stream that ends holds the outcome of every item.
C6_FaultBecomesFailure ==
    /\ \A k \in 1..Len(yielded) :
          yielded[k].status = IF yielded[k].file_id \in faulted THEN "FAILURE" ELSE "SUCCESS"
    /\ (gpc \in {"exiting", "raised"} => cancelled)
    /\ (gpc = "returned" =>
            \A i \in Items : HasOutcome(i, IF i \in faulted THEN "FAILURE" ELSE "SUCCESS"))

C6_Witness ==
    /\ gpc = "returned"
    /\ \E i, j \in Items :
          /\ i \in faulted /\ j \notin faulted
          /\ \E k \in 1..Len(yielded) : \E m \in (k + 1)..Len(yielded) :
                yielded[k].file_id = i /\ yielded[m].file_id = j

\* C8: at most max_workers items execute at the same time.
C8_AtMostMaxWorkersRunning == Cardinality(Running) <= max_workers

C8_Witness ==
    /\ max_workers = MaxWorkers
    /\ Cardinality(Running) = max_workers
    /\ Queued # {}

\* C9: after the cancellation an item that had not started executing by then
\* is never running or finished, and no outcome is yielded for it.
C9_NoDispatchAfterCancel ==
    cancelled =>
        \A i \in Items \ startedAtCancel :
            /\ fstate[i] \notin {"running", "finished"}
            /\ OutcomeCount(i) = 0

C9_Witness ==
    /\ cancelled
    /\ gpc = "raised"
    /\ \E i \in Items : fstate[i] = "cancelled"
    /\ \E i \in startedAtCancel : OutcomeCount(i) = 0

\* C10: when the interrupt follows the first outcome of 10 items with
\* concurrency 3 and three items had been dispatched by then, the stream ends
\* with between 3 and 10 outcomes and with an outcome for every item dispatched
\* before the cancellation.
C10_DispatchedItemsYield ==
    (n = 10 /\ max_workers = 3 /\ cancelled /\ gpc = "raised"
        /\ Cardinality(startedAtCancel) >= 3) =>
        /\ Len(yielded) >= 3
        /\ Len(yielded) <= 10
        /\ \A i \in startedAtCancel : OutcomeCount(i) >= 1

\* Item i finished executing after the cancellation: as_completed neither set
\* it aside, nor collected it, nor handed it out.
FinishedAfterCancel(i) ==
    /\ cancelled
    /\ fstate[i] = "finished"
    /\ i \notin snapshot /\ i \notin consumed
    /\ \A k \in 1..Len(doneq) : doneq[k] # i

\* C11: after the cancellation an item that was executing is never cancelled
\* or dropped (it runs on until it finishes), and the interrupt leaves the
\* generator only when every item dispatched before it has finished.
C11_StreamEndsAfterDispatchedResolve ==
    cancelled =>
        /\ \A i \in startedAtCancel : fstate[i] \in {"running", "finished"}
        /\ (gpc = "raised" => \A i \in startedAtCancel : fstate[i] = "finished")

C11_Witness ==
    /\ gpc = "raised"
    /\ Cardinality(startedAtCancel) >= 2
    /\ \E i \in startedAtCancel : FinishedAfterCancel(i)

\* The per-range results with those of ranges i and i + 1 exchanged.
Swapped(rs, i) == [rs EXCEPT ![i] = rs[i + 1], ![i + 1] = rs[i]]

\* C12: the first_seen / last_seen of the returned report are those of the
\* reduce step applied to the per-range results with any two neighbours
\* exchanged. Every list of per-range results is the start of a run and every
\* reordering is a chain of such exchanges, so the report is that of all orders.
C12_ReduceOrderInvariant ==
    apc = "returned" =>
        \A i \in 1..(Len(results) - 1) :
            LET swapped == Reduce(Swapped(results, i))
            IN /\ swapped.first_seen = report.first_seen
               /\ swapped.last_seen = report.last_seen

C12_Witness ==
    /\ apc = "returned"
    /\ Len(results) = MaxParts
    /\ \E i, j, k \in 1..Len(results) :
          /\ i < j /\ j < k
          /\ results[i].count > 0 /\ results[i].first # None
          /\ results[j].count = 0
          /\ results[k].count > 0 /\ results[k].first = None

SetMin(S) == CHOOSE x \in S : \A y \in S : x <= y
SetMax(S) == CHOOSE x \in S : \A y \in S : x >= y
Firsts == {results[i].first : i \in {j \in 1..Len(results) :
                results[j].count > 0 /\ results[j].first # None}}
Lasts == {results[i].last : i \in {j \in 1..Len(results) :
                results[j].count > 0 /\ results[j].last # None}}

\* C20: first_seen is the least non-empty `first` and last_seen the greatest
\* non-empty `last` of the per-range results with count > 0; each is empty
\* exactly when no such result has a non-empty one.
C20_FirstIsMinLastIsMax ==
    apc = "returned" =>
        /\ report.first_seen = IF Firsts = {} THEN None ELSE SetMin(Firsts)
        /\ report.last_seen = IF Lasts = {} THEN None ELSE SetMax(Lasts)

C20_Witness ==
    /\ apc = "returned"
    /\ \E i, j \in 1..Len(results) :
          /\ i < j
          /\ results[i].count > 0 /\ results[j].count > 0
          /\ results[i].first # None /\ results[j].first # None
          /\ results[j].first < results[i].first
          /\ results[j].last # None /\ results[i].last = None
    /\ \E i \in 1..Len(results) : results[i].count = 0

\* C13: for the three-line scenario file and 2 workers the returned report
\* counts 2 matches, wherever the file is split into two byte ranges.
C13_ScenarioCountIsTwo ==
    (apc = "returned" /\ cpu_cores = 2 /\ Len(lines) = 3 /\ file_size = 18) =>
        report.count = 2

\* The keys a report records as failed: its failed_ranges, if it has any.
FailedRangesOf(rep) ==
    IF "failed_ranges" \in DOMAIN rep THEN rep.failed_ranges ELSE {}

\* C14: when the stream has been reduced, outcomes other than SUCCESS have
\* added nothing to the total, and the key of each of them is among the failed
\* ranges the final report records.
C14_FailedKeysReported ==
    gpc = "returned" =>
        /\ MainReport.success_count + Cardinality({k \in 1..Len(yielded) :
                yielded[k].status # "SUCCESS"}) = Len(yielded)
        /\ \A k \in 1..Len(yielded) :
              yielded[k].status # "SUCCESS" =>
                  yielded[k].file_id \in FailedRangesOf(MainReport)

\* C15: with zero workers or a negative timeout_per_job no item ever starts
\* executing and no outcome is ever yielded.
C15_InvalidConfigRejected ==
    (max_workers <= 0 \/ timeout_per_job < 0) =>
        /\ \A i \in Items : fstate[i] \notin {"running", "finished"}
        /\ yielded = <<>>

\* C16: for a file of size 0 no byte range is built and no worker is run, and
\* the run ends by returning a report with zero matches.
C16_EmptyFileEmptyPlan ==
    (file_size = 0 /\ apc \in {"planning", "mapping", "reducing", "returned", "raised"}) =>
        /\ chunk_args = <<>>
        /\ \A i \in 1..Len(results) : results[i].status = "notrun"
        /\ (apc \in {"returned", "raised"} => apc = "returned" /\ report.count = 0)

\* The file with every line replaced by a well-formed non-matching line of
\* the same length.
WellFormed(ls) == [k \in 1..Len(ls) |-> [len |-> ls[k].len, kind |-> "nomatch", ts |-> None]]

\* C17: whatever the lines hold, a worker that met no I/O error finishes its
\* scan, and the lines it visited are those it visits when every line of the
\* file is well-formed.
C17_NoLineAbortsScan ==
    \A i \in 1..Len(results) :
        results[i].status \in {"ok", "raised"} =>
            /\ results[i].status = "ok"
            /\ results[i].visited =
                 process_chunk(WellFormed(lines), chunk_args[i].start, chunk_args[i].end).visited

\* Items whose execution has finished and whose outcome has not been yielded.
CompletedUnconsumed == {i \in Items : fstate[i] = "finished" /\ OutcomeCount(i) = 0}

\* C18: at most max_workers items are finished with their outcome not yet
\* yielded to the caller.
C18_BoundedUnconsumed == Cardinality(CompletedUnconsumed) <= max_workers

\* Position of item i in a sequence of items (0 when absent), and in the
\* stream of outcomes.
FinishPos(i) == IF \E k \in 1..Len(finish_order) : finish_order[k] = i
                THEN CHOOSE k \in 1..Len(finish_order) : finish_order[k] = i
                ELSE 0
YieldPos(i) == IF \E k \in 1..Len(yielded) : yielded[k].file_id = i
               THEN CHOOSE k \in 1..Len(yielded) : yielded[k].file_id = i
               ELSE 0
FinishedBefore(a, b) == FinishPos(a) > 0 /\ FinishPos(a) < FinishPos(b)
YieldedBefore(a, b) == YieldPos(a) > 0 /\ YieldPos(a) < YieldPos(b)

\* An outcome is yielded only for an item that has finished executing.
YieldedOnlyAfterFinish ==
    \A k \in 1..Len(yielded) :
        fstate[yielded[k].file_id] = "finished" /\ FinishPos(yielded[k].file_id) > 0

\* C19 as stated: an outcome is yielded only after its item has finished, and
\* whenever A finished before B and B's outcome has been yielded, A's outcome
\* was yielded before it.
C19_YieldedInCompletionOrder ==
    /\ YieldedOnlyAfterFinish
    /\ \A a, b \in Items :
          (FinishedBefore(a, b) /\ YieldPos(b) > 0) => YieldedBefore(a, b)

\* C19 amended: an outcome is yielded only after its item has finished; an
\* item that finished after as_completed was called has its outcome yielded
\* after that of every item that finished before it. Items already finished
\* at the call come first, in no particular order among themselves.
C19_CompletionOrderAfterCall ==
    /\ YieldedOnlyAfterFinish
    /\ \A a, b \in Items :
          (FinishedBefore(a, b) /\ b \notin early /\ YieldPos(b) > 0) => YieldedBefore(a, b)

\* Two items finish after the call in the reverse of their submission order,
\* and both outcomes have been yielded, in completion order.
C19_Witness ==
    /\ Len(finish_order) >= 2
    /\ finish_order[1] > finish_order[2]
    /\ early = {}
    /\ Len(yielded) >= 2
    /\ yielded[1].file_id = finish_order[1]
    /\ yielded[2].file_id = finish_order[2]

\* The lines of ls a worker of [start, end) owns: those whose starting byte
\* offset p has start < p < end, or 0 <= p < end when start = 0.
OwnedLines(ls, start, end) ==
    {k \in 1..Len(ls) :
        /\ LineStart(ls, k) < end
        /\ IF start = 0 THEN LineStart(ls, k) >= 0 ELSE LineStart(ls, k) > start}

VisitedLines(r) == {r.visited[j] : j \in 1..Len(r.visited)}

\* C21: a worker that opened the file has processed exactly the lines its
\* range owns, none of them starting at or after end.
C21_ProcessesOwnedLines ==
    \A i \in 1..Len(results) :
        results[i].status \in {"ok", "raised"} =>
            VisitedLines(results[i]) = OwnedLines(lines, chunk_args[i].start, chunk_args[i].end)

\* Items that finished after the generator was closed: as_completed neither
\* found them finished when it was called nor collected them since.
FinishedAfterClose ==
    {i \in Items : /\ fstate[i] = "finished"
                   /\ i \notin consumed \cup snapshot
                   /\ \A k \in 1..Len(doneq) : doneq[k] # i}

\* C22: every item is submitted before the first outcome is yielded. Once the
\* consumer has closed the generator no submitted item is cancelled, while
\* close() is blocked and an item is unfinished the pool has an item running
\* or a free thread for a queued one, and close() has returned only when every
\* submitted item has finished.
C22_CloseRunsEverySubmittedItem ==
    /\ (Len(yielded) > 0 => submitted = n)
    /\ gpc \in {"closing", "closed"} =>
          /\ \A i \in Items : fstate[i] \in {"unsubmitted", "queued", "running", "finished"}
          /\ (gpc = "closing" /\ ~PoolJoined => Running # {} \/ HasFreeSlot)
          /\ (gpc = "closed" => \A i \in Items : fstate[i] \in {"unsubmitted", "finished"})
          /\ (gpc = "closed" /\ submitted > 0 => \A i \in Items : fstate[i] = "finished")

\* close() has returned after the first outcome of several items, and an item
\* that was pending at the close has run to completion meanwhile.
C22_Witness ==
    /\ gpc = "closed"
    /\ n >= 2
    /\ Len(yielded) = 1
    /\ FinishedAfterClose # {}
    /\ \A i \in Items : fstate[i] = "finished"

\* Position of check i in a sequence of checks (0 when absent).
SeqPos(q, i) == IF \E k \in 1..Len(q) : q[k] = i
                THEN CHOOSE k \in 1..Len(q) : q[k] = i
                ELSE 0
InputUrls == {urls[i] : i \in Checks}
ChecksOf(u) == {i \in Checks : urls[i] = u}
LastCompleted(u) ==
    CHOOSE i \in ChecksOf(u) : \A j \in ChecksOf(u) : SeqPos(hfinish, j) <= SeqPos(hfinish, i)
LastProcessed(u) ==
    CHOOSE i \in ChecksOf(u) : \A j \in ChecksOf(u) : SeqPos(hprocessed, j) <= SeqPos(hprocessed, i)

\* The report is returned only after every submitted check has completed,
\* and it has exactly one entry per distinct input URL.
ReturnedAfterAllChecks ==
    hpc = "returned" =>
        /\ HSubmitted = Checks
        /\ \A i \in Checks : hstate[i] = "finished"
        /\ DOMAIN status_report = InputUrls

\* C23 as stated: the report is returned after every check has completed, has
\* one entry per distinct URL, and the status recorded for a URL is that of
\* the last of its checks to complete.
C23_LastCompletedRecorded ==
    /\ ReturnedAfterAllChecks
    /\ hpc = "returned" =>
          \A u \in InputUrls : status_report[u] = LoopStatus(hresult[LastCompleted(u)])

\* C23 amended: the report is returned after every check has completed, has
\* one entry per distinct URL, and the status recorded for a URL is that of
\* the last of its checks the loop processed. A check that completed after
\* as_completed was called is processed after every check that completed
\* before it; the checks already complete at the call are processed first, in
\* no particular order among themselves.
C23_LastProcessedRecorded ==
    /\ ReturnedAfterAllChecks
    /\ hpc = "returned" =>
          \A u \in InputUrls : status_report[u] = LoopStatus(hresult[LastProcessed(u)])
    /\ \A a, b \in Checks :
          (/\ SeqPos(hfinish, a) > 0
           /\ SeqPos(hfinish, a) < SeqPos(hfinish, b)
           /\ b \notin hearly
           /\ SeqPos(hprocessed, b) > 0)
          => (SeqPos(hprocessed, a) > 0 /\ SeqPos(hprocessed, a) < SeqPos(hprocessed, b))

\* One URL checked twice: both checks complete after the call, the second
\* submitted first, with different results; the report holds the result of
\* the first submitted, which completed and was processed last.
C23_Witness ==
    /\ hpc = "returned"
    /\ \E a, b \in Checks :
          /\ a < b /\ urls[a] = urls[b]
          /\ hearly = {}
          /\ SeqPos(hfinish, b) < SeqPos(hfinish, a)
          /\ hresult[a] # hresult[b]
          /\ LastProcessed(urls[a]) = a
          /\ status_report[urls[a]] = LoopStatus(hresult[a])

====
